---- MODULE Spec2Model ----
(***************************************************************************)
(* Model of fix_formatter.py: the frontmatter classifier                   *)
(* (detect_frontmatter_issues), the reconstructor                          *)
(* (fix_frontmatter_placement) and the batch driver (main).                *)
(*                                                                         *)
(* A text is a sequence of characters, one string each.  The regular       *)
(* expressions of the source are modelled by what Python's backtracking    *)
(* matcher does with them on such a text (leftmost match, greedy \s*, lazy  *)
(* .*? under DOTALL), never by their intent.                               *)
(***************************************************************************)
EXTENDS Integers, Sequences, FiniteSets, TLC

NL == "\n"

\* A character of a text is a string: an ASCII character is written as
\* itself, a character outside ASCII as the name of its code point
\* ("U+00A0"), so that a text reads the same under every file encoding and
\* its length counts code points as Python's str does.
\*
\* The characters Python's \s (str pattern) and str.strip() treat as
\* whitespace.  In ASCII: U+0009..U+000D, U+001C..U+001F and U+0020.
AsciiSpace == {" ", NL, "\t", "\r", "\f", "", "", "", "", ""}
\* Outside ASCII: U+0085, U+00A0, U+1680, U+2000..U+200A, U+2028, U+2029,
\* U+202F, U+205F and U+3000.  Every other code point name ("U+00E9",
\* "U+200B", "U+20AC") is not whitespace.
OtherSpace ==
    {"U+0085", "U+00A0", "U+1680",
     "U+2000", "U+2001", "U+2002", "U+2003", "U+2004", "U+2005",
     "U+2006", "U+2007", "U+2008", "U+2009", "U+200A",
     "U+2028", "U+2029", "U+202F", "U+205F", "U+3000"}
IsSpace(c) == c \in AsciiSpace \cup OtherSpace

Dashes == <<"-", "-", "-">>

KeyDescription == <<"d","e","s","c","r","i","p","t","i","o","n",":">>
KeyGlobs == <<"g","l","o","b","s",":">>
KeyAlwaysApply == <<"a","l","w","a","y","s","A","p","p","l","y",":">>

\* loose_yaml_pattern: the three alternatives of the group.
Keys == {KeyDescription, KeyGlobs, KeyAlwaysApply}

\* frontmatter_match.start() > 10
Threshold == 10

Max(S) == CHOOSE x \in S : \A y \in S : y <= x
Min(S) == CHOOSE x \in S : \A y \in S : x <= y

\* The pattern p occurs in s at (1-based) position i.
StartsWithAt(s, i, p) ==
    /\ i >= 1
    /\ i + Len(p) - 1 <= Len(s)
    /\ \A k \in 1..Len(p) : s[i + k - 1] = p[k]

\* Last position of the run of whitespace that starts at j (j - 1 when the
\* run is empty): what a greedy \s* consumes from j.
WsRunEnd(s, j) ==
    Max({e \in (j - 1)..Len(s) : \A q \in j..e : IsSpace(s[q])})

\* str.strip()
Strip(s) ==
    LET keep == {i \in 1..Len(s) : ~IsSpace(s[i])}
    IN  IF keep = {} THEN <<>> ELSE SubSeq(s, Min(keep), Max(keep))

\* str.split('\n')
RECURSIVE SplitFrom(_, _)
SplitFrom(s, i) ==
    LET nls == {j \in i..Len(s) : s[j] = NL}
    IN  IF nls = {} THEN <<SubSeq(s, i, Len(s))>>
        ELSE <<SubSeq(s, i, Min(nls) - 1)>> \o SplitFrom(s, Min(nls) + 1)

Split(s) == SplitFrom(s, 1)

\* "\n".join(lines)
RECURSIVE Join(_)
Join(lines) ==
    IF Len(lines) = 0 THEN <<>>
    ELSE IF Len(lines) = 1 THEN lines[1]
    ELSE lines[1] \o <<NL>> \o Join(Tail(lines))

\* re.match(r'^(description:|globs:|alwaysApply:).*$', line.strip()):
\* the stripped line begins with a key; .*$ then takes the rest of the line,
\* which holds no newline because the line comes from split('\n').
IsKeyLine(line) ==
    LET t == Strip(line)
    IN  \E k \in Keys : StartsWithAt(t, 1, k)

\* line.strip() == '---'
IsDelimiterLine(line) == Strip(line) = Dashes

IsBlankLine(line) == Strip(line) = <<>>

(***************************************************************************)
(* frontmatter_pattern = r'---\s*\n(.*?)\n---\s*' with re.DOTALL.          *)
(* A match that starts at i: '---', then \s* greedy and '\n' (so the       *)
(* matcher tries the LAST newline of the whitespace run first), then the   *)
(* lazy group up to the first following '\n---', then \s* greedy.          *)
(***************************************************************************)
\* Where the closing '\n' of '\n---' can be, once the opening newline is at k.
ClosingNewlines(s, k) ==
    {m \in (k + 1)..Len(s) : s[m] = NL /\ StartsWithAt(s, m + 1, Dashes)}

\* Where the opening '\n' can be for a match starting at i.
OpeningNewlines(s, i) ==
    {k \in (i + 3)..WsRunEnd(s, i + 3) : s[k] = NL /\ ClosingNewlines(s, k) # {}}

\* Last position of the match that starts at i, 0 when none does.
MatchEnd(s, i) ==
    IF ~StartsWithAt(s, i, Dashes) \/ OpeningNewlines(s, i) = {} THEN 0
    ELSE LET k == Max(OpeningNewlines(s, i))
             m == Min(ClosingNewlines(s, k))
         IN  WsRunEnd(s, m + 4)

\* re.search(frontmatter_pattern, content, re.DOTALL), scanning from
\* position p: the leftmost match.  first = 0 stands for None.
SearchFrom(s, p) ==
    LET starts == {i \in p..Len(s) : MatchEnd(s, i) # 0}
    IN  IF starts = {} THEN [first |-> 0, last |-> 0]
        ELSE [first |-> Min(starts), last |-> MatchEnd(s, Min(starts))]

Search(s) == SearchFrom(s, 1)

\* re.sub(frontmatter_pattern, '', content, flags=re.DOTALL) from position p
\* on: no count is given, so every non-overlapping match is removed.
RECURSIVE RemoveMatchesFrom(_, _)
RemoveMatchesFrom(s, p) ==
    LET m == SearchFrom(s, p)
    IN  IF m.first = 0 THEN SubSeq(s, p, Len(s))
        ELSE SubSeq(s, p, m.first - 1) \o RemoveMatchesFrom(s, m.last + 1)

RemoveMatches(s) == RemoveMatchesFrom(s, 1)

(***************************************************************************)
(* detect_frontmatter_issues: the body of the loop for one file's content. *)
(***************************************************************************)
\* Mutant of StartsTooLate: the comparison written as >=.
StartsTooLateInclusive(offset) == offset >= Threshold

\* frontmatter_match.start() > 10, on the 0-based offset of the match.
StartsTooLate(offset) == offset > Threshold

\* The loop over enumerate(lines): the first line that matches a key.
LooseYamlStart(content) ==
    LET lines == Split(content)
        hits == {i \in 1..Len(lines) : IsKeyLine(lines[i])}
    IN  IF hits = {} THEN -1 ELSE Min(hits) - 1

\* kind: the branch taken; at: the offset (or 1-based line) it prints;
\* problematic: whether the branch appends the file to problematic_files.
Classify(content) ==
    LET frontmatter_match == Search(content)
        loose_yaml_start == LooseYamlStart(content)
        has_loose_yaml == loose_yaml_start # -1
    IN  IF frontmatter_match.first # 0
        THEN IF StartsTooLate(frontmatter_match.first - 1)
             THEN [kind |-> "Misplaced", at |-> frontmatter_match.first - 1,
                   problematic |-> TRUE]
             ELSE [kind |-> "WellFormed", at |-> frontmatter_match.first - 1,
                   problematic |-> FALSE]
        ELSE IF has_loose_yaml
             THEN [kind |-> "LooseUnwrapped", at |-> loose_yaml_start + 1,
                   problematic |-> TRUE]
             ELSE [kind |-> "NoMetadata", at |-> 0, problematic |-> FALSE]

(***************************************************************************)
(* fix_frontmatter_placement: the computation of fixed_content.            *)
(***************************************************************************)
\* Mutant of AssembleFixed: the two parts in the wrong order.
AssembleBodyFirst(frontmatter, body) ==
    body \o <<NL, NL>> \o frontmatter \o <<NL>>

\* Case 1, f"{frontmatter}\n\n{content_without_frontmatter}\n"
AssembleFixed(frontmatter, body) ==
    frontmatter \o <<NL, NL>> \o body \o <<NL>>

\* Case 1: frontmatter = group(0); the rest is content with the pattern
\* substituted away, stripped.
FixMisplaced(content) ==
    LET m == Search(content)
        frontmatter == SubSeq(content, m.first, m.last)
        content_without_frontmatter == Strip(RemoveMatches(content))
    IN  AssembleFixed(frontmatter, content_without_frontmatter)

\* Mutant of WalkLine: the closing marker is kept as a line of content.
WalkLineKeepsMarker(w, line) ==
    IF IsKeyLine(line)
    THEN [in_yaml_section |-> TRUE,
          yaml_lines |-> Append(w.yaml_lines, line),
          content_lines |-> w.content_lines]
    ELSE IF w.in_yaml_section /\ (IsDelimiterLine(line) \/ IsBlankLine(line))
    THEN [in_yaml_section |-> FALSE,
          yaml_lines |-> w.yaml_lines,
          content_lines |-> Append(w.content_lines, line)]
    ELSE IF w.in_yaml_section
    THEN [w EXCEPT !.yaml_lines = Append(w.yaml_lines, line)]
    ELSE [w EXCEPT !.content_lines = Append(w.content_lines, line)]

\* Mutant of WalkLine: a key line opens the section only while no section
\* has been closed before it.
WalkLineFirstSectionOnly(w, line) ==
    IF IsKeyLine(line) /\ (w.in_yaml_section \/ w.yaml_lines = <<>>)
    THEN [in_yaml_section |-> TRUE,
          yaml_lines |-> Append(w.yaml_lines, line),
          content_lines |-> w.content_lines]
    ELSE IF w.in_yaml_section /\ IsDelimiterLine(line)
    THEN [w EXCEPT !.in_yaml_section = FALSE]
    ELSE IF w.in_yaml_section /\ IsBlankLine(line)
    THEN [in_yaml_section |-> FALSE,
          yaml_lines |-> w.yaml_lines,
          content_lines |-> Append(w.content_lines, line)]
    ELSE IF w.in_yaml_section
    THEN [w EXCEPT !.yaml_lines = Append(w.yaml_lines, line)]
    ELSE [w EXCEPT !.content_lines = Append(w.content_lines, line)]

\* Case 2, one iteration of "for line in lines": w is the walk's state
\* (in_yaml_section, yaml_lines, content_lines).
WalkLine(w, line) ==
    IF IsKeyLine(line)
    THEN [in_yaml_section |-> TRUE,
          yaml_lines |-> Append(w.yaml_lines, line),
          content_lines |-> w.content_lines]
    ELSE IF w.in_yaml_section /\ IsDelimiterLine(line)
    THEN [w EXCEPT !.in_yaml_section = FALSE]
    ELSE IF w.in_yaml_section /\ IsBlankLine(line)
    THEN [in_yaml_section |-> FALSE,
          yaml_lines |-> w.yaml_lines,
          content_lines |-> Append(w.content_lines, line)]
    ELSE IF w.in_yaml_section
    THEN [w EXCEPT !.yaml_lines = Append(w.yaml_lines, line)]
    ELSE [w EXCEPT !.content_lines = Append(w.content_lines, line)]

RECURSIVE WalkFrom(_, _, _)
WalkFrom(lines, i, w) ==
    IF i > Len(lines) THEN w
    ELSE WalkFrom(lines, i + 1, WalkLine(w, lines[i]))

Walk(content) ==
    WalkFrom(Split(content), 1,
             [in_yaml_section |-> FALSE, yaml_lines |-> <<>>,
              content_lines |-> <<>>])

\* re.sub(r'\n---\s*$', '', text): '$' is the end of the text here (the
\* text is stripped), so a match is a '\n---' followed by whitespace only.
ScrubTrailingMarker(text) ==
    LET hits == {p \in 1..Len(text) :
                    /\ text[p] = NL
                    /\ StartsWithAt(text, p + 1, Dashes)
                    /\ WsRunEnd(text, p + 4) = Len(text)}
    IN  IF hits = {} THEN text ELSE SubSeq(text, 1, Min(hits) - 1)

\* Last position of a match of '\n---\s*\n' that starts at p, 0 when none:
\* the greedy \s* gives back to the last newline of the whitespace run.
MarkerLineEnd(text, p) ==
    IF ~(p <= Len(text) /\ text[p] = NL /\ StartsWithAt(text, p + 1, Dashes))
    THEN 0
    ELSE LET nls == {k \in (p + 4)..WsRunEnd(text, p + 4) : text[k] = NL}
         IN  IF nls = {} THEN 0 ELSE Max(nls)

\* re.sub(r'\n---\s*\n', '\n\n', text) from position p on.
RECURSIVE ScrubMiddleFrom(_, _)
ScrubMiddleFrom(text, p) ==
    LET starts == {i \in p..Len(text) : MarkerLineEnd(text, i) # 0}
    IN  IF starts = {} THEN SubSeq(text, p, Len(text))
        ELSE SubSeq(text, p, Min(starts) - 1) \o <<NL, NL>>
             \o ScrubMiddleFrom(text, MarkerLineEnd(text, Min(starts)) + 1)

ScrubMiddleMarkers(text) == ScrubMiddleFrom(text, 1)

\* content_without_yaml after the strip and the two substitutions.
CleanBody(content_lines) ==
    ScrubMiddleMarkers(ScrubTrailingMarker(Strip(Join(content_lines))))

\* frontmatter = "---\n" + "\n".join(yaml_lines) + "\n---"
WrapYaml(yaml_lines) ==
    Dashes \o <<NL>> \o Join(yaml_lines) \o <<NL>> \o Dashes

\* Case 2, when yaml_lines is not empty.
FixLoose(content) ==
    LET w == Walk(content)
    IN  AssembleFixed(WrapYaml(w.yaml_lines), CleanBody(w.content_lines))

\* The try block between the read and the write: ok = FALSE is the
\* "No YAML content found to fix" return.
Reconstruct(content) ==
    IF Search(content).first # 0
    THEN [ok |-> TRUE, text |-> FixMisplaced(content)]
    ELSE IF Walk(content).yaml_lines # <<>>
    THEN [ok |-> TRUE, text |-> FixLoose(content)]
    ELSE [ok |-> FALSE, text |-> <<>>]

(***************************************************************************)
(* The texts the model is run on: up to MaxChunks chunks joined by         *)
(* newlines, plus the worked example of the specification.                 *)
(***************************************************************************)
MaxChunks == 4

LineBlank == <<>>
LineGlobs == KeyGlobs \o <<" ", "y">>
LineDescriptionIndented == <<" ">> \o KeyDescription \o <<" ", "x">>
LineHello == <<"H", "e", "l", "l", "o">>
LineMidSentence == <<"a", " ">> \o LineGlobs
ChunkBlock == Join(<<Dashes, LineGlobs, Dashes>>)
ChunkRuled == Join(<<Dashes, LineHello, Dashes>>)

Vocabulary ==
    {LineBlank, Dashes, LineGlobs, LineDescriptionIndented, LineHello,
     LineMidSentence, ChunkBlock, ChunkRuled}

ExampleLoose ==
    Join(<<KeyDescription \o <<" ", "x">>, LineGlobs,
           KeyAlwaysApply \o <<" ", "t", "r", "u", "e">>, LineBlank, LineHello>>)

Contents ==
    {Join(cs) : cs \in UNION {[1..n -> Vocabulary] : n \in 1..MaxChunks}}
        \cup {ExampleLoose}

(***************************************************************************)
(* State.  The first group is one call of the classifier and of the        *)
(* reconstructor on one text; the second group is a run of main() over the *)
(* files of .cursor/rules.                                                 *)
(***************************************************************************)
VARIABLES
    content,            \* the text handed to the classifier
    fstage,             \* "input", "classified", "fixed", "rechecked"
    cls,                \* Classify(content)
    walked,             \* yaml_lines / content_lines when the walk has run
    fixed,              \* Reconstruct(content)
    recls,              \* Classify of the reconstructed text
    dirExists,          \* rules_directory.exists()
    files,              \* file -> its text on disk
    backups,            \* file -> its .backup sibling: [exists, text]
    pc,                 \* where main() is
    scan,               \* index of the file the detection loop is at
    problematic_files,  \* the list detect_frontmatter_issues builds
    fixIdx,             \* index into problematic_files of the fix loop
    buf,                \* content as read by fix_frontmatter_placement
    fixed_content,      \* fixed_content of fix_frontmatter_placement
    successful_fixes,
    failed_fixes,
    files0,             \* history: the texts when the run started
    backups0,           \* history: the backups when the run started
    classified,         \* history: file -> kind, "unvisited" or "unreadable"
    classifiedText,     \* history: file -> the text that was classified
    attempts,           \* history: file -> "none", "running", "fixed", "failed"
    backedUp,           \* history: files whose backup copy got the whole text
    overwritten         \* history: files whose original was opened for writing

fnVars == <<content, fstage, cls, walked, fixed, recls>>

runVars ==
    <<dirExists, files, backups, pc, scan, problematic_files, fixIdx, buf,
      fixed_content, successful_fixes, failed_fixes, files0, backups0,
      classified, classifiedText, attempts, backedUp, overwritten>>

vars == <<fnVars, runVars>>

NumFiles == 2

FileIds == 1..NumFiles

NoClass == [kind |-> "none", at |-> 0, problematic |-> FALSE]
NoWalk == [in_yaml_section |-> FALSE, yaml_lines |-> <<>>, content_lines |-> <<>>]
NoFix == [ok |-> FALSE, text |-> <<>>]
NoBackup == [exists |-> FALSE, text |-> <<>>]

CR == "\r"

\* open(file_path, 'r', encoding='utf-8') and f.read(): a text-mode read
\* with the default newline=None hands over the text on disk with every
\* "\r\n" and every remaining "\r" turned into "\n".
RECURSIVE TextReadFrom(_, _)
TextReadFrom(raw, i) ==
    IF i > Len(raw) THEN <<>>
    ELSE IF raw[i] = CR
         THEN <<NL>> \o TextReadFrom(raw, IF i < Len(raw) /\ raw[i + 1] = NL
                                          THEN i + 2 ELSE i + 1)
         ELSE <<raw[i]>> \o TextReadFrom(raw, i + 1)

TextRead(raw) == TextReadFrom(raw, 1)

\* Texts of the files of a run, as they are on disk: one per
\* classification, and two that hold carriage returns.  RunCrLf has its
\* block at offset 11 on disk and at offset 10 once read; RunLooseCr is one
\* line on disk and two lines once read.
RunWellFormed == Join(<<ChunkBlock, LineHello>>)
RunNoMetadata == LineHello
RunMisplaced == Join(<<LineHello, LineHello, ChunkBlock>>)
RunLoose == Join(<<LineHello, LineGlobs, LineBlank>>)
RunCrLf ==
    LineHello \o <<" ", "a", "l", "l", CR, NL>> \o Dashes \o <<CR, NL>>
        \o LineGlobs \o <<CR, NL>> \o Dashes \o <<CR, NL>>
RunLooseCr == LineGlobs \o <<CR>> \o LineHello
RunContents ==
    {RunWellFormed, RunNoMetadata, RunMisplaced, RunLoose, RunCrLf,
     RunLooseCr}

\* A .backup file left by an earlier run: the pre-fix text of that run.
StaleBackup == [exists |-> TRUE, text |-> Join(<<LineGlobs, LineHello>>)]

FnIdle ==
    /\ content = <<>>
    /\ fstage = "idle"
    /\ cls = NoClass
    /\ walked = NoWalk
    /\ fixed = NoFix
    /\ recls = NoClass

RunIdle ==
    /\ dirExists = FALSE
    /\ files = [f \in FileIds |-> <<>>]
    /\ backups = [f \in FileIds |-> NoBackup]
    /\ pc = "idle"
    /\ scan = 0
    /\ problematic_files = <<>>
    /\ fixIdx = 0
    /\ buf = <<>>
    /\ fixed_content = <<>>
    /\ successful_fixes = 0
    /\ failed_fixes = 0
    /\ files0 = files
    /\ backups0 = backups
    /\ classified = [f \in FileIds |-> "unvisited"]
    /\ classifiedText = [f \in FileIds |-> <<>>]
    /\ attempts = [f \in FileIds |-> "none"]
    /\ backedUp = {}
    /\ overwritten = {}

(***************************************************************************)
(* The classifier and the reconstructor applied to one text.               *)
(***************************************************************************)
InitFn ==
    /\ content \in Contents
    /\ fstage = "input"
    /\ cls = NoClass
    /\ walked = NoWalk
    /\ fixed = NoFix
    /\ recls = NoClass
    /\ RunIdle

\* detect_frontmatter_issues on the text.
FnClassify ==
    /\ fstage = "input"
    /\ cls' = Classify(content)
    /\ fstage' = "classified"
    /\ UNCHANGED <<content, walked, fixed, recls, runVars>>

\* fix_frontmatter_placement on a text the classifier listed.
FnReconstruct ==
    /\ fstage = "classified"
    /\ cls.problematic
    /\ fixed' = Reconstruct(content)
    /\ walked' = IF Search(content).first # 0 THEN NoWalk ELSE Walk(content)
    /\ fstage' = "fixed"
    /\ UNCHANGED <<content, cls, recls, runVars>>

\* The classifier on the text the reconstructor wrote.
FnReclassify ==
    /\ fstage = "fixed"
    /\ fixed.ok
    /\ recls' = Classify(fixed.text)
    /\ fstage' = "rechecked"
    /\ UNCHANGED <<content, cls, walked, fixed, runVars>>

NextFn == FnClassify \/ FnReconstruct \/ FnReclassify

SpecFn == InitFn /\ [][NextFn]_vars

(***************************************************************************)
(* A run of main().  Every file operation either succeeds or raises.  A   *)
(* copy or write of a text that raises leaves one of the outcomes the      *)
(* operating system can produce: the target untouched (it was never        *)
(* opened), or the target opened and truncated with any prefix of the text *)
(* in it: nothing, a part, or all of it (the error came after the data,    *)
(* as in copystat or close).                                               *)
(***************************************************************************)
IoOutcomes(text) ==
    {[raised |-> FALSE, opened |-> TRUE, arrived |-> Len(text)],
     [raised |-> TRUE, opened |-> FALSE, arrived |-> 0]}
        \cup {[raised |-> TRUE, opened |-> TRUE, arrived |-> n] :
                  n \in 0..Len(text)}

Init ==
    /\ FnIdle
    /\ dirExists \in BOOLEAN
    /\ files \in [FileIds -> RunContents]
    /\ backups \in [FileIds -> {NoBackup, StaleBackup}]
    /\ pc = "start"
    /\ scan = 0
    /\ problematic_files = <<>>
    /\ fixIdx = 0
    /\ buf = <<>>
    /\ fixed_content = <<>>
    /\ successful_fixes = 0
    /\ failed_fixes = 0
    /\ files0 = files
    /\ backups0 = backups
    /\ classified = [f \in FileIds |-> "unvisited"]
    /\ classifiedText = [f \in FileIds |-> <<>>]
    /\ attempts = [f \in FileIds |-> "none"]
    /\ backedUp = {}
    /\ overwritten = {}

\* Mutant of ScanFinished: the return sits inside the loop, so detection
\* ends after the first file.
ScanFinishedAfterFirst(i) == i > 1

\* Mutant of Appended: every classified file is listed.
AppendedAlways(list, f, c) == Append(list, f)

\* The "for file_path in mdc_files" loop of detect_frontmatter_issues has
\* visited every file.
ScanFinished(i) == i > NumFiles

\* What one iteration of the detection loop does to problematic_files.
Appended(list, f, c) == IF c.problematic THEN Append(list, f) ELSE list

\* main() up to the detection loop: a missing directory returns the empty
\* list, and main() returns on "not problematic_files".
MainStart ==
    /\ pc = "start"
    /\ IF dirExists
       THEN pc' = "detect" /\ scan' = 1
       ELSE pc' = "done" /\ scan' = scan
    /\ UNCHANGED <<fnVars, dirExists, files, backups, problematic_files, fixIdx,
                   buf, fixed_content, successful_fixes, failed_fixes, files0,
                   backups0, classified, classifiedText, attempts, backedUp,
                   overwritten>>

\* One iteration of the detection loop: the read raises (caught, the file
\* is skipped) or the text, as the text-mode read returns it, is classified.
DetectFile ==
    /\ pc = "detect"
    /\ ~ScanFinished(scan)
    /\ \E readOk \in BOOLEAN :
          IF readOk
          THEN LET text == TextRead(files[scan])
                   c == Classify(text)
               IN  /\ classified' = [classified EXCEPT ![scan] = c.kind]
                   /\ classifiedText' =
                          [classifiedText EXCEPT ![scan] = text]
                   /\ problematic_files' = Appended(problematic_files, scan, c)
          ELSE /\ classified' = [classified EXCEPT ![scan] = "unreadable"]
               /\ UNCHANGED <<classifiedText, problematic_files>>
    /\ scan' = scan + 1
    /\ UNCHANGED <<fnVars, dirExists, files, backups, pc, fixIdx, buf,
                   fixed_content, successful_fixes, failed_fixes, files0,
                   backups0, attempts, backedUp, overwritten>>

\* detect_frontmatter_issues returns; main() returns when the list is empty
\* and enters the fix loop otherwise.
DetectReturn ==
    /\ pc = "detect"
    /\ ScanFinished(scan)
    /\ IF problematic_files = <<>>
       THEN pc' = "done" /\ fixIdx' = fixIdx
       ELSE pc' = "fix_backup" /\ fixIdx' = 1
    /\ UNCHANGED <<fnVars, dirExists, files, backups, scan, problematic_files,
                   buf, fixed_content, successful_fixes, failed_fixes, files0,
                   backups0, classified, classifiedText, attempts, backedUp,
                   overwritten>>

CurrentFile == problematic_files[fixIdx]

\* What a copy or a write of text leaves in a target that held old.
Landed(outcome, old, text) ==
    IF outcome.opened THEN SubSeq(text, 1, outcome.arrived) ELSE old

\* fix_frontmatter_placement returns to the loop of main(), which counts
\* the result and goes on to the next file or to the summary.
ReturnToMain(f, ok) ==
    /\ attempts' = [attempts EXCEPT ![f] = IF ok THEN "fixed" ELSE "failed"]
    /\ successful_fixes' = IF ok THEN successful_fixes + 1 ELSE successful_fixes
    /\ failed_fixes' = IF ok THEN failed_fixes ELSE failed_fixes + 1
    /\ IF fixIdx = Len(problematic_files)
       THEN pc' = "done" /\ fixIdx' = fixIdx
       ELSE pc' = "fix_backup" /\ fixIdx' = fixIdx + 1

\* shutil.copy2(file_path, backup_path)
FixBackup ==
    /\ pc = "fix_backup"
    /\ \E outcome \in IoOutcomes(files[CurrentFile]) :
          /\ backups' =
                [backups EXCEPT ![CurrentFile] =
                    IF ~outcome.opened THEN @
                    ELSE [exists |-> TRUE,
                          text |-> Landed(outcome, @.text, files[CurrentFile])]]
          /\ backedUp' =
                IF outcome.opened /\ outcome.arrived = Len(files[CurrentFile])
                THEN backedUp \cup {CurrentFile}
                ELSE backedUp
          /\ pc' = IF outcome.raised THEN "fix_restore" ELSE "fix_read"
    /\ attempts' = [attempts EXCEPT ![CurrentFile] = "running"]
    /\ UNCHANGED <<fnVars, dirExists, files, scan, problematic_files, fixIdx,
                   buf, fixed_content, successful_fixes, failed_fixes, files0,
                   backups0, classified, classifiedText, overwritten>>

\* open(file_path, 'r', encoding='utf-8') and f.read()
FixRead ==
    /\ pc = "fix_read"
    /\ \E readOk \in BOOLEAN :
          IF readOk
          THEN buf' = TextRead(files[CurrentFile]) /\ pc' = "fix_compute"
          ELSE buf' = buf /\ pc' = "fix_restore"
    /\ UNCHANGED <<fnVars, dirExists, files, backups, scan, problematic_files,
                   fixIdx, fixed_content, successful_fixes, failed_fixes,
                   files0, backups0, classified, classifiedText, attempts,
                   backedUp, overwritten>>

\* The computation of fixed_content, or the "No YAML content found" return.
FixCompute ==
    /\ pc = "fix_compute"
    /\ LET r == Reconstruct(buf)
       IN  IF r.ok
           THEN /\ fixed_content' = r.text
                /\ pc' = "fix_write"
                /\ UNCHANGED <<attempts, successful_fixes, failed_fixes, fixIdx>>
           ELSE /\ fixed_content' = fixed_content
                /\ ReturnToMain(CurrentFile, FALSE)
    /\ UNCHANGED <<fnVars, dirExists, files, backups, scan, problematic_files,
                   buf, files0, backups0, classified, classifiedText, backedUp,
                   overwritten>>

\* open(file_path, 'w', encoding='utf-8') and f.write(fixed_content): the
\* text-mode write turns "\n" into os.linesep, which is "\n" itself on the
\* POSIX systems the script is run on, so the text lands as it is.
FixWrite ==
    /\ pc = "fix_write"
    /\ \E outcome \in IoOutcomes(fixed_content) :
          /\ files' = [files EXCEPT
                          ![CurrentFile] = Landed(outcome, @, fixed_content)]
          /\ overwritten' = IF outcome.opened
                            THEN overwritten \cup {CurrentFile}
                            ELSE overwritten
          /\ IF ~outcome.raised
             THEN ReturnToMain(CurrentFile, TRUE)
             ELSE /\ pc' = "fix_restore"
                  /\ UNCHANGED <<attempts, successful_fixes, failed_fixes,
                                 fixIdx>>
    /\ UNCHANGED <<fnVars, dirExists, backups, scan, problematic_files, buf,
                   fixed_content, files0, backups0, classified, classifiedText,
                   backedUp>>

\* The except handler: when backup_path exists it is copied over the file;
\* that copy is outside any try, so when it raises the exception leaves
\* fix_frontmatter_placement and main().
FixRestore ==
    /\ pc = "fix_restore"
    /\ IF backups[CurrentFile].exists
       THEN \E outcome \in IoOutcomes(backups[CurrentFile].text) :
               /\ files' = [files EXCEPT
                               ![CurrentFile] =
                                   Landed(outcome, @, backups[CurrentFile].text)]
               /\ overwritten' = IF outcome.opened
                                 THEN overwritten \cup {CurrentFile}
                                 ELSE overwritten
               /\ IF ~outcome.raised
                  THEN ReturnToMain(CurrentFile, FALSE)
                  ELSE /\ pc' = "crashed"
                       /\ UNCHANGED <<attempts, successful_fixes, failed_fixes,
                                      fixIdx>>
       ELSE /\ UNCHANGED <<files, overwritten>>
            /\ ReturnToMain(CurrentFile, FALSE)
    /\ UNCHANGED <<fnVars, dirExists, backups, scan, problematic_files, buf,
                   fixed_content, files0, backups0, classified, classifiedText,
                   backedUp>>

Next ==
    \/ MainStart
    \/ DetectFile
    \/ DetectReturn
    \/ FixBackup
    \/ FixRead
    \/ FixCompute
    \/ FixWrite
    \/ FixRestore

Spec == Init /\ [][Next]_vars

(***************************************************************************)
(* What the claims say, stated on the text itself and not through the      *)
(* matcher above.                                                          *)
(***************************************************************************)
\* A delimited block can start at position i: '---', whitespace up to a
\* newline, anything, and a later newline directly followed by '---'.
BlockStartsAt(s, i) ==
    /\ StartsWithAt(s, i, Dashes)
    /\ \E k \in (i + 3)..Len(s) :
          /\ s[k] = NL
          /\ \A q \in (i + 3)..(k - 1) : IsSpace(s[q])
          /\ \E m \in (k + 1)..Len(s) :
                s[m] = NL /\ StartsWithAt(s, m + 1, Dashes)

HasBlock(s) == \E i \in 1..Len(s) : BlockStartsAt(s, i)

\* 0-based offset of the first delimited block.
FirstBlockOffset(s) == Min({i \in 1..Len(s) : BlockStartsAt(s, i)}) - 1

\* Some line, after its leading blanks, begins with a recognized key.
SomeLineBeginsWithKey(s) ==
    \E a \in 1..Len(s) :
       /\ a = 1 \/ s[a - 1] = NL
       /\ \E c \in a..Len(s) :
             /\ \A q \in a..(c - 1) : IsSpace(s[q]) /\ s[q] # NL
             /\ \E k \in Keys : StartsWithAt(s, c, k)

ExpectedKind(s) ==
    IF HasBlock(s)
    THEN IF FirstBlockOffset(s) <= 10 THEN "WellFormed" ELSE "Misplaced"
    ELSE IF SomeLineBeginsWithKey(s) THEN "LooseUnwrapped" ELSE "NoMetadata"

Reconstructed == fstage \in {"fixed", "rechecked"}

\* C1: classification is decided by the delimited block first (WellFormed
\* when it starts at offset 10 or less, Misplaced when later, whatever loose
\* key lines there are), then by loose key lines (LooseUnwrapped), else
\* NoMetadata; and exactly the Misplaced and LooseUnwrapped texts are put on
\* the list of files to fix.
C1_ClassificationPriority ==
    fstage # "input" =>
        /\ cls.kind = ExpectedKind(content)
        /\ cls.problematic <=> cls.kind \in {"Misplaced", "LooseUnwrapped"}

\* A block at offset exactly 10 behind a loose key line: WellFormed.
C1_Witness ==
    /\ fstage = "classified"
    /\ content = Join(<<LineBlank, LineGlobs, ChunkBlock>>)
    /\ cls.kind = "WellFormed"
    /\ cls.at = 10

\* C3: a text whose first delimited block starts after offset 10 is
\* classified Misplaced, and the reconstructed text is classified WellFormed
\* with its block at offset 0.
C3_MisplacedBecomesWellFormed ==
    (HasBlock(content) /\ FirstBlockOffset(content) > 10) =>
        /\ fstage # "input" => cls.kind = "Misplaced"
        /\ Reconstructed => fixed.ok
        /\ fstage = "rechecked" => recls.kind = "WellFormed" /\ recls.at = 0

C3_Witness ==
    /\ fstage = "rechecked"
    /\ cls.kind = "Misplaced"
    /\ cls.at = 11
    /\ recls.kind = "WellFormed"

\* The lines of a text at the indices that satisfy a test, in order.
LinesWhere(ls, Test(_, _)) ==
    LET idx == SelectSeq([i \in 1..Len(ls) |-> i], LAMBDA i : Test(ls, i))
    IN  [k \in 1..Len(idx) |-> ls[idx[k]]]

\* A line that ends a metadata section: blank or a delimiter.
EndsSection(l) == ~IsKeyLine(l) /\ (IsDelimiterLine(l) \/ IsBlankLine(l))

\* Line i is reached inside a metadata section: a key line precedes it with
\* no section end in between.
InSection(ls, i) ==
    \E j \in 1..(i - 1) :
       IsKeyLine(ls[j]) /\ \A q \in (j + 1)..(i - 1) : ~EndsSection(ls[q])

IsMetaLine(ls, i) == IsKeyLine(ls[i]) \/ (InSection(ls, i) /\ ~EndsSection(ls[i]))

\* A delimiter line met inside a section: the section's closing marker.
IsClosingMarker(ls, i) ==
    InSection(ls, i) /\ ~IsKeyLine(ls[i]) /\ IsDelimiterLine(ls[i])

IsBodyLine(ls, i) == ~IsMetaLine(ls, i) /\ ~IsClosingMarker(ls, i)

ExpectedMetaLines(s) == LinesWhere(Split(s), IsMetaLine)
ExpectedBodyLines(s) == LinesWhere(Split(s), IsBodyLine)
ClosingMarkers(s) == LinesWhere(Split(s), IsClosingMarker)

ExampleFixed ==
    Join(<<Dashes, KeyDescription \o <<" ", "x">>, LineGlobs,
           KeyAlwaysApply \o <<" ", "t", "r", "u", "e">>, Dashes, LineBlank,
           LineHello, LineBlank>>)

\* C7: for a LooseUnwrapped text the reconstructed document is, line by
\* line: '---', the accumulated metadata lines in their original order,
\* '---', a blank line, the cleaned Body, and a trailing newline; the worked
\* example gives exactly the expected document; and a delimiter line met
\* inside the metadata section is in neither accumulator.
C7_LooseDocumentShape ==
    (Reconstructed /\ cls.kind = "LooseUnwrapped") =>
        /\ fixed.ok
        /\ walked.yaml_lines = ExpectedMetaLines(content)
        /\ walked.content_lines = ExpectedBodyLines(content)
        /\ Len(walked.yaml_lines) + Len(walked.content_lines)
              + Len(ClosingMarkers(content)) = Len(Split(content))
        /\ Split(fixed.text) =
              <<Dashes>> \o walked.yaml_lines \o <<Dashes, LineBlank>>
                  \o Split(CleanBody(walked.content_lines)) \o <<LineBlank>>
        /\ content = ExampleLoose => fixed.text = ExampleFixed

\* A loose text whose metadata section is closed by a delimiter line.
C7_Witness ==
    /\ fstage = "fixed"
    /\ cls.kind = "LooseUnwrapped"
    /\ content = Join(<<LineHello, LineGlobs, Dashes, LineHello>>)
    /\ fixed.text =
          Join(<<Dashes, LineGlobs, Dashes, LineBlank, LineHello, LineHello,
                 LineBlank>>)

\* The lines of the first metadata section: from the first key line up to
\* the line before the first section end after it.
FirstSectionLines(s) ==
    LET ls == Split(s)
        first == Min({i \in 1..Len(ls) : IsKeyLine(ls[i])})
        ends == {i \in (first + 1)..Len(ls) : EndsSection(ls[i])}
    IN  SubSeq(ls, first, IF ends = {} THEN Len(ls) ELSE Min(ends) - 1)

KeyLineCount(ls) == Cardinality({i \in 1..Len(ls) : IsKeyLine(ls[i])})

\* C8 as stated: once the section has been closed, later key lines are kept
\* as Body, so the accumulator holds the lines of the first section only.
C8_FirstSectionOnly ==
    (Reconstructed /\ cls.kind = "LooseUnwrapped") =>
        walked.yaml_lines = FirstSectionLines(content)

\* C8 as amended: a key line opens a metadata section wherever it stands,
\* also after an earlier section was closed; every key line of the text is
\* in the metadata accumulator and none is kept as Body, so the accumulator
\* holds the lines of every section in document order.
C8_EverySectionCollected ==
    (Reconstructed /\ cls.kind = "LooseUnwrapped") =>
        /\ KeyLineCount(walked.yaml_lines) = KeyLineCount(Split(content))
        /\ KeyLineCount(walked.content_lines) = 0
        /\ walked.yaml_lines = ExpectedMetaLines(content)

\* A key line after a closed section ended up in the accumulator.
C8_Witness ==
    /\ fstage = "fixed"
    /\ cls.kind = "LooseUnwrapped"
    /\ content = Join(<<LineGlobs, LineBlank, LineHello, LineGlobs>>)
    /\ walked.yaml_lines = <<LineGlobs, LineGlobs>>
    /\ walked.content_lines = <<LineBlank, LineHello>>

\* The text around the first delimited block.
OutsideFirstBlock(s) ==
    LET m == Search(s)
    IN  SubSeq(s, 1, m.first - 1) \o SubSeq(s, m.last + 1, Len(s))

\* C9 as stated: in the Misplaced case exactly the first matched block is
\* extracted and removed; everything else, later delimiter-bounded regions
\* included, stays in the Body verbatim.
C9_FirstMatchOnly ==
    (Reconstructed /\ cls.kind = "Misplaced") =>
        LET m == Search(content)
        IN  fixed.text =
               SubSeq(content, m.first, m.last) \o <<NL, NL>>
                   \o Strip(OutsideFirstBlock(content)) \o <<NL>>

\* Body lines as compared: trimmed, without blank and delimiter lines.
RECURSIVE Trimmed(_)
Trimmed(ls) ==
    IF ls = <<>> THEN <<>> ELSE <<Strip(Head(ls))>> \o Trimmed(Tail(ls))

BodyText(ls) ==
    SelectSeq(Trimmed(ls), LAMBDA l : l # <<>> /\ l # Dashes)

\* Body of a text that holds a delimited block: the lines around the block.
BodyAroundBlock(s) == BodyText(Split(OutsideFirstBlock(s)))

\* C2 as stated: reconstruction neither drops nor duplicates body content:
\* the body lines of the output are the body lines of the input, in order.
C2_BodyPreserved ==
    (Reconstructed /\ fixed.ok) =>
        BodyAroundBlock(fixed.text) =
            IF cls.kind = "Misplaced" THEN BodyAroundBlock(content)
            ELSE BodyText(ExpectedBodyLines(content))

(***************************************************************************)
(* Claims about a run.                                                     *)
(***************************************************************************)
Fixable == {"Misplaced", "LooseUnwrapped"}

Finished == {"fixed", "failed"}

\* C4 as stated: the original is opened for overwriting only after a backup
\* holding its pre-fix text has been written, and an attempt that does not
\* succeed returns with the file's text as it was before the attempt, also
\* when a backup of an earlier run exists.
C4_OriginalNeverLost ==
    /\ \A f \in overwritten :
          /\ f \in backedUp
          /\ backups[f] = [exists |-> TRUE, text |-> files0[f]]
    /\ \A f \in FileIds : attempts[f] = "failed" => files[f] = files0[f]

\* C5 as stated: no combination of read, backup, write or restore failures
\* aborts the batch: no error escapes the run, every file is visited by the
\* classifier and every file classified fixable gets its fix attempt; only a
\* missing directory ends the run with no file processed.
C5_NoFailureAbortsBatch ==
    /\ pc # "crashed"
    /\ (pc = "done" /\ dirExists) =>
          \A f \in FileIds :
             /\ classified[f] # "unvisited"
             /\ classified[f] \in Fixable => attempts[f] \in Finished
    /\ (pc = "done" /\ ~dirExists) =>
          \A f \in FileIds :
             classified[f] = "unvisited" /\ attempts[f] = "none"

\* C6: a file classified WellFormed or NoMetadata is never handed to the
\* reconstructor, keeps its text, and gets no backup file written.
C6_UnfixableUntouched ==
    \A f \in FileIds :
       classified[f] \in {"WellFormed", "NoMetadata"} =>
           /\ attempts[f] = "none"
           /\ files[f] = files0[f]
           /\ backups[f] = backups0[f]

\* A finished run that fixed one file and left a WellFormed one alone: the
\* one whose block is within the threshold only once its "\r\n" are read
\* as "\n".
C6_Witness ==
    /\ pc = "done"
    /\ \E f, g \in FileIds :
          /\ files0[f] = RunCrLf
          /\ classified[f] = "WellFormed"
          /\ files[f] = RunCrLf
          /\ backups[f] = NoBackup
          /\ attempts[g] = "fixed"

\* C10 as stated: each file is fully classified, backed up, reconstructed
\* and written before the classification of the next file begins.
C10_OneFileAtATime ==
    \A f, g \in FileIds :
       (f < g /\ classified[f] \in Fixable /\ classified[g] # "unvisited") =>
           attempts[f] \in Finished

\* C10 as amended: the run has two phases.  Every file is classified before
\* any file is backed up, reconstructed or written; then the fixable files
\* are fixed strictly one at a time in list order, each attempt finished
\* before the next begins; and the text that is reconstructed is the text
\* that was classified.
C10_ClassifyAllThenFixInTurn ==
    /\ \A f \in FileIds :
          attempts[f] # "none" =>
              \A g \in FileIds : classified[g] # "unvisited"
    /\ \A i, j \in 1..Len(problematic_files) :
          (i < j /\ attempts[problematic_files[j]] # "none") =>
              attempts[problematic_files[i]] \in Finished
    /\ Cardinality({f \in FileIds : attempts[f] = "running"}) <= 1
    /\ pc \in {"fix_compute", "fix_write"} =>
          buf = classifiedText[CurrentFile]
    /\ pc = "fix_write" =>
          fixed_content = Reconstruct(classifiedText[CurrentFile]).text

\* A finished run in which two files were fixed, one after the other, the
\* first of them a file whose text on disk is not the text that is read.
C10_Witness ==
    /\ pc = "done"
    /\ \E f, g \in FileIds :
          /\ f < g
          /\ files0[f] = RunLooseCr
          /\ classifiedText[f] # files0[f]
          /\ attempts[f] = "fixed"
          /\ files[f] = Reconstruct(classifiedText[f]).text
          /\ attempts[g] = "fixed"

====
